---- MODULE Spec2Model ----
(***************************************************************************)
(* Model of the pool controller firmware (src/src/main.cpp): the valve     *)
(* actuator commands, the manual override window, the heater test and the   *)
(* pump runtime tally, as executed by setup() and by one pass of loop().    *)
(*                                                                          *)
(* The program is single threaded.  One pass of loop() is modelled as the   *)
(* sequence of its sections, pc naming the section that runs next.  Every   *)
(* section is one action; the functions it calls (OpenValve, CloseValve,    *)
(* StopValveMotion, CallPump, initiateHeaterTest, finishHeaterTest,         *)
(* IsPumpOn) are operators on the record of the program's variables, so a   *)
(* section's action contains everything its code does, blocking delays      *)
(* included.  The variable ev lists, in program order, the calls and pin    *)
(* writes the last section made, each with the flags in force at that       *)
(* moment; it is how statements about states inside a section are made.     *)
(*                                                                          *)
(* Times are milliseconds as returned by millis().  delay(n) advances the   *)
(* clock by n.  The code puts no upper bound on the duration of a pass      *)
(* (HTTP requests block), so the time a pass takes beyond its delays is an  *)
(* input drawn from Elapse, whose least element is the 10 ms idle wait.     *)
(***************************************************************************)
EXTENDS Integers, Sequences, FiniteSets, TLC

VARIABLES
    clock,                   \* value millis() returns
    openGate,                \* level of OPEN_GATE_PIN
    closeGate,               \* level of CLOSE_GATE_PIN
    isValveOpen,
    valveMotion,
    valveMotionStart,
    manualOverrideStart,
    manualOverrideActive,
    pumpStatus,
    solarStatus,
    temp1,
    temp2,
    heaterTestActive,
    heaterTestStart,
    heaterTestResultPool,
    heaterTestResultSolar,
    pumpRunTimeToday,
    lastPumpStateChange,
    previousPumpState,
    buttonPreviouslyPressed, \* static of loop()
    lastTempRead,            \* static of loop()
    lastTest,                \* static of loop()
    lastPumpCheck,           \* static of loop()
    now,                     \* local of loop()
    pumpCommand,             \* argument of the last CallPump call, "none" before the first
    lastDirection,           \* last directional valve command issued: "none", "open", "close"
    lastTrigger,             \* millis() at the last manual toggle (button or route), 0 before
    windowToggle,            \* command of the manual toggle whose override window is
                             \* open: "open" or "close"; "none" while no window is open
    ev,                      \* calls and pin writes of the last section, in order
    pc,                      \* section of loop() that runs next
    ticks                    \* passes of loop() started

vars == <<clock, openGate, closeGate, isValveOpen, valveMotion, valveMotionStart,
          manualOverrideStart, manualOverrideActive, pumpStatus, solarStatus,
          temp1, temp2, heaterTestActive, heaterTestStart, heaterTestResultPool,
          heaterTestResultSolar, pumpRunTimeToday, lastPumpStateChange,
          previousPumpState, buttonPreviouslyPressed, lastTempRead, lastTest,
          lastPumpCheck, now, pumpCommand, lastDirection, lastTrigger,
          windowToggle, ev, pc, ticks>>

-----------------------------------------------------------------------------
(* Bounds of the model *)

\* passes of loop() a behaviour contains
MaxTicks == 4
\* passes of loop() that take inputs in the behaviours of LiveSpec
LiveTicks == 3
\* passes of loop() in which the reply of the pump switch is an input; in the
\* passes after them the switch reports the pump off
PumpTicks == 2

(* Program constants *)

\* delay(10000) of setup(): millis() when loop() first runs
WiFiSettle == 10000
\* manual override window, ms
OverrideDuration == 20000
\* temperature logging period, ms
TempInterval == 1000
\* probe conversion wait, ms
ProbeWait == 100
\* testInterval, ms
testInterval == 3600000
\* heater test duration 5UL * 60UL * 1000UL, ms
HeaterTestDuration == 300000
\* delay between the pump command and OpenValve in initiateHeaterTest, ms
PumpSettle == 1000
\* delay for the valve to travel fully, ms
ValveSettle == 15000
\* pump polling period, ms
PumpInterval == 10000
\* idle wait at the end of loop(), ms
IdleWait == 10
\* first and one-past-last hour of the operating window
WindowOpenHour == 9
WindowCloseHour == 16
\* effectiveness margin 0.5 degrees Celsius, in tenths of a degree
EffectiveMargin == 5
\* 2^31 - 1, the upper half of the range of unsigned long starting right above
ULongHalf == 2147483647

-----------------------------------------------------------------------------
(* Inputs *)

\* duration of one pass of loop() beyond its delays; IdleWait is the least
Elapse == {IdleWait, OverrideDuration - IdleWait, HeaterTestDuration, testInterval}

\* tm_hour values: just outside and just inside the operating window
Hours == {WindowOpenHour - 1, WindowOpenHour, WindowCloseHour - 1, WindowCloseHour}

\* probe readings <<pool, solar>> in tenths of a degree Celsius:
\* 24.0/24.2, 24.0/24.5 (exactly the margin) and 24.0/28.0
Samples == {<<240, 242>>, <<240, 245>>, <<240, 280>>}

\* reading cached for the display by the temperature logging section; no decision
\* of the program reads temp1 or temp2
LoggedSamples == {<<240, 242>>}

\* outcomes of the Switch.GetStatus request of IsPumpOn
PumpReplies == {"offline", "error", "nofield", "true", "false"}

\* duration of a pass in the behaviours of TallySpec.  The long one stands for
\* the passes of nearly 25 days in which every poll finds the pump as the poll
\* before it did: such a poll changes lastPumpCheck alone.
LongElapse == {PumpInterval, ULongHalf}

\* unsigned long arithmetic, 32 bits wide.  A value v is held as the integer
\* with the same 32 bits: v itself below 2^31, v - 2^32 from 2^31 on.  Sum and
\* difference are taken modulo 2^32, and ULess is the unsigned order.
USub(a, b) ==
    IF a >= 0 /\ b < 0 /\ a > ULongHalf + b
    THEN (a - ULongHalf - 1) - (b + ULongHalf + 1)
    ELSE IF a < 0 /\ b > 0 /\ a < (b - ULongHalf) - 1
         THEN (a + ULongHalf + 1) - (b - ULongHalf - 1)
         ELSE a - b

UAdd(a, b) ==
    IF a > 0 /\ b > 0 /\ a > ULongHalf - b
    THEN (a - ULongHalf - 1) + (b - ULongHalf - 1)
    ELSE IF a < 0 /\ b < 0 /\ a < (0 - ULongHalf - 1) - b
         THEN (a + ULongHalf + 1) + (b + ULongHalf + 1)
         ELSE a + b

ULess(a, b) == IF (a < 0) = (b < 0) THEN a < b ELSE b < 0

-----------------------------------------------------------------------------
(* The program's variables as one record, for the operators that model its
   functions *)

Cur ==
    [clock |-> clock, openGate |-> openGate, closeGate |-> closeGate,
     isValveOpen |-> isValveOpen, valveMotion |-> valveMotion,
     valveMotionStart |-> valveMotionStart,
     manualOverrideStart |-> manualOverrideStart,
     manualOverrideActive |-> manualOverrideActive,
     pumpStatus |-> pumpStatus, solarStatus |-> solarStatus,
     temp1 |-> temp1, temp2 |-> temp2,
     heaterTestActive |-> heaterTestActive, heaterTestStart |-> heaterTestStart,
     heaterTestResultPool |-> heaterTestResultPool,
     heaterTestResultSolar |-> heaterTestResultSolar,
     pumpRunTimeToday |-> pumpRunTimeToday,
     lastPumpStateChange |-> lastPumpStateChange,
     previousPumpState |-> previousPumpState,
     buttonPreviouslyPressed |-> buttonPreviouslyPressed,
     lastTempRead |-> lastTempRead, lastTest |-> lastTest,
     lastPumpCheck |-> lastPumpCheck, now |-> now,
     pumpCommand |-> pumpCommand, lastDirection |-> lastDirection,
     lastTrigger |-> lastTrigger, windowToggle |-> windowToggle, ev |-> <<>>]

Becomes(s) ==
    /\ clock' = s.clock
    /\ openGate' = s.openGate
    /\ closeGate' = s.closeGate
    /\ isValveOpen' = s.isValveOpen
    /\ valveMotion' = s.valveMotion
    /\ valveMotionStart' = s.valveMotionStart
    /\ manualOverrideStart' = s.manualOverrideStart
    /\ manualOverrideActive' = s.manualOverrideActive
    /\ pumpStatus' = s.pumpStatus
    /\ solarStatus' = s.solarStatus
    /\ temp1' = s.temp1
    /\ temp2' = s.temp2
    /\ heaterTestActive' = s.heaterTestActive
    /\ heaterTestStart' = s.heaterTestStart
    /\ heaterTestResultPool' = s.heaterTestResultPool
    /\ heaterTestResultSolar' = s.heaterTestResultSolar
    /\ pumpRunTimeToday' = s.pumpRunTimeToday
    /\ lastPumpStateChange' = s.lastPumpStateChange
    /\ previousPumpState' = s.previousPumpState
    /\ buttonPreviouslyPressed' = s.buttonPreviouslyPressed
    /\ lastTempRead' = s.lastTempRead
    /\ lastTest' = s.lastTest
    /\ lastPumpCheck' = s.lastPumpCheck
    /\ now' = s.now
    /\ pumpCommand' = s.pumpCommand
    /\ lastDirection' = s.lastDirection
    /\ lastTrigger' = s.lastTrigger
    /\ windowToggle' = s.windowToggle
    /\ ev' = s.ev

\* F applied to the value of s: the statements F stands for run on the variables
\* as the statements before them left them.  (s is evaluated once, however often
\* F reads it.)
With(s, F(_)) == CHOOSE r \in {F(x) : x \in {s}} : TRUE

\* the section of loop() whose result is r runs
Does(r) == \E s \in {r} : Becomes(s)

\* an entry of ev: what happened (op, with its argument arg), in which function
\* or section (src), and the pins, flags and timestamps at that moment.  For a
\* wait, n is its length in ms and gap the longest stretch of it, in ms, with
\* no call of ArduinoOTA.handle(); for a reading of the time of day, n is the
\* hour.
Event(s, op, src, arg) ==
    [op |-> op, src |-> src, arg |-> arg, n |-> 0, gap |-> 0,
     openGate |-> s.openGate, closeGate |-> s.closeGate,
     valveMotion |-> s.valveMotion, isValveOpen |-> s.isValveOpen,
     solarStatus |-> s.solarStatus,
     manualOverrideActive |-> s.manualOverrideActive,
     windowToggle |-> s.windowToggle,
     heaterTestActive |-> s.heaterTestActive,
     heaterTestStart |-> s.heaterTestStart,
     pumpRunTimeToday |-> s.pumpRunTimeToday,
     lastPumpStateChange |-> s.lastPumpStateChange,
     previousPumpState |-> s.previousPumpState,
     lastPumpCheck |-> s.lastPumpCheck, lastTest |-> s.lastTest,
     lastTrigger |-> s.lastTrigger, now |-> s.now, clock |-> s.clock]

Log(s, op, src, arg) ==
    With(s, LAMBDA x : [x EXCEPT !.ev = Append(@, Event(x, op, src, arg))])

LogNum(s, op, src, n, gap) ==
    With(s, LAMBDA x :
        [x EXCEPT !.ev = Append(@, [Event(x, op, src, "") EXCEPT !.n = n,
                                                                 !.gap = gap])])

\* millis() advancing by ms
Spend(s, ms) == [s EXCEPT !.clock = UAdd(@, ms)]

millis(s) == s.clock

\* delay(ms): the caller is blocked for ms milliseconds and nothing else runs
delay(s, ms) == Spend(LogNum(s, "delay", "", ms, ms), ms)

\* while (millis() - waitStart < ms) { ArduinoOTA.handle(); delay(1); }
WaitLoop(s, ms) == Spend(LogNum(s, "delay", "ArduinoOTA.handle", ms, 1), ms)

\* digitalWrite on one of the two drive pins; the entry logged shows the pins
\* right after the write
digitalWrite(s, pin, level) ==
    Log(IF pin = "OPEN_GATE_PIN" THEN [s EXCEPT !.openGate = level]
                                 ELSE [s EXCEPT !.closeGate = level],
        "digitalWrite", pin, level)

-----------------------------------------------------------------------------
(* Valve control *)

OpenValve(s, src) ==
    LET s0 == Log(s, "OpenValve", src, "")
        s1 == digitalWrite(s0, "CLOSE_GATE_PIN", "LOW")
        s2 == digitalWrite(s1, "OPEN_GATE_PIN", "HIGH")
    IN  With(s2, LAMBDA x : [x EXCEPT !.valveMotionStart = millis(x),
                                      !.valveMotion = "OPENING_MOTION",
                                      !.lastDirection = "open"])

\* CloseValve with its two pin writes in the other order
CloseValve_highFirst(s, src) ==
    LET s0 == Log(s, "CloseValve", src, "")
        s1 == digitalWrite(s0, "CLOSE_GATE_PIN", "HIGH")
        s2 == digitalWrite(s1, "OPEN_GATE_PIN", "LOW")
    IN  With(s2, LAMBDA x : [x EXCEPT !.valveMotionStart = millis(x),
                                      !.valveMotion = "CLOSING_MOTION",
                                      !.lastDirection = "close"])

CloseValve(s, src) ==
    LET s0 == Log(s, "CloseValve", src, "")
        s1 == digitalWrite(s0, "OPEN_GATE_PIN", "LOW")
        s2 == digitalWrite(s1, "CLOSE_GATE_PIN", "HIGH")
    IN  With(s2, LAMBDA x : [x EXCEPT !.valveMotionStart = millis(x),
                                      !.valveMotion = "CLOSING_MOTION",
                                      !.lastDirection = "close"])

\* StopValveMotion that also marks the valve closed
StopValveMotion_marksClosed(s, src) ==
    LET s0 == Log(s, "StopValveMotion", src, "")
        s1 == digitalWrite(s0, "OPEN_GATE_PIN", "LOW")
        s2 == digitalWrite(s1, "CLOSE_GATE_PIN", "LOW")
    IN  [s2 EXCEPT !.valveMotion = "IDLE", !.isValveOpen = FALSE]

StopValveMotion(s, src) ==
    LET s0 == Log(s, "StopValveMotion", src, "")
        s1 == digitalWrite(s0, "OPEN_GATE_PIN", "LOW")
        s2 == digitalWrite(s1, "CLOSE_GATE_PIN", "LOW")
    IN  [s2 EXCEPT !.valveMotion = "IDLE"]

-----------------------------------------------------------------------------
(* Pump *)

\* CallPump(state): the request is sent only when WiFi is connected
CallPump(s, state, wifi) ==
    LET s0 == Log(s, "CallPump", IF wifi THEN "sent" ELSE "not connected", state)
    IN  [s0 EXCEPT !.pumpCommand = state]

\* IsPumpOn(): true only for a reply carrying "output": true
IsPumpOn(reply) ==
    CASE reply = "offline" -> FALSE
      [] reply = "error"   -> FALSE
      [] reply = "nofield" -> FALSE
      [] reply = "true"    -> TRUE
      [] reply = "false"   -> FALSE

-----------------------------------------------------------------------------
(* Heater test *)

\* initiateHeaterTest that leaves solarStatus as it was
initiateHeaterTest_noStatus(s, wifi) ==
    LET s0 == Log(s, "initiateHeaterTest", "loop", "")
        s1 == CallPump(s0, "on", wifi)
        s2 == delay(s1, PumpSettle)
        s3 == OpenValve(s2, "initiateHeaterTest")
        s4 == [s3 EXCEPT !.isValveOpen = TRUE]
        s5 == delay(s4, ValveSettle)
        s6 == StopValveMotion(s5, "initiateHeaterTest")
    IN  With(s6, LAMBDA x : [x EXCEPT !.heaterTestStart = millis(x),
                                      !.heaterTestActive = TRUE])

initiateHeaterTest(s, wifi) ==
    LET s0 == Log(s, "initiateHeaterTest", "loop", "")
        s1 == CallPump(s0, "on", wifi)
        s2 == delay(s1, PumpSettle)
        s3 == OpenValve(s2, "initiateHeaterTest")
        s4 == [s3 EXCEPT !.isValveOpen = TRUE, !.solarStatus = "ON"]
        s5 == delay(s4, ValveSettle)
        s6 == StopValveMotion(s5, "initiateHeaterTest")
    IN  With(s6, LAMBDA x : [x EXCEPT !.heaterTestStart = millis(x),
                                      !.heaterTestActive = TRUE])

\* the decision with >= for >
HeaterEffective_atLeast(pool, solar) == solar >= pool + EffectiveMargin

\* the decision of finishHeaterTest, readings in tenths of a degree
HeaterEffective(pool, solar) == solar > pool + EffectiveMargin

\* the two branches of finishHeaterTest
KeepSystemOn(s, wifi) ==
    CallPump([s EXCEPT !.isValveOpen = TRUE, !.solarStatus = "ON"], "on", wifi)

TurnSystemOff(s, wifi) ==
    LET c1 == CloseValve(s, "finishHeaterTest")
        c2 == delay(c1, ValveSettle)
        c3 == StopValveMotion(c2, "finishHeaterTest")
        c4 == [c3 EXCEPT !.isValveOpen = FALSE, !.solarStatus = "OFF"]
    IN  CallPump(c4, "off", wifi)

finishHeaterTest(s, sample, wifi) ==
    LET s0 == Log(s, "finishHeaterTest", "loop", "")
        s1 == delay(s0, ProbeWait)
        s2 == [s1 EXCEPT !.heaterTestResultPool = sample[1],
                         !.heaterTestResultSolar = sample[2]]
        s3 == With(s2, LAMBDA x :
                  IF HeaterEffective(x.heaterTestResultPool, x.heaterTestResultSolar)
                  THEN KeepSystemOn(x, wifi)
                  ELSE TurnSystemOff(x, wifi))
    IN  [s3 EXCEPT !.heaterTestActive = FALSE]

-----------------------------------------------------------------------------
(* setup() *)

\* the variables as their initialisers leave them, at the time setup() has waited
\* for WiFi to settle
Boot ==
    [clock |-> WiFiSettle, openGate |-> "LOW", closeGate |-> "LOW",
     isValveOpen |-> FALSE, valveMotion |-> "IDLE", valveMotionStart |-> 0,
     manualOverrideStart |-> 0, manualOverrideActive |-> FALSE,
     pumpStatus |-> "OFF", solarStatus |-> "OFF", temp1 |-> 0, temp2 |-> 0,
     heaterTestActive |-> FALSE, heaterTestStart |-> 0,
     heaterTestResultPool |-> 0, heaterTestResultSolar |-> 0,
     pumpRunTimeToday |-> 0, lastPumpStateChange |-> 0,
     previousPumpState |-> FALSE, buttonPreviouslyPressed |-> FALSE,
     lastTempRead |-> 0, lastTest |-> 0, lastPumpCheck |-> 0, now |-> 0,
     pumpCommand |-> "none", lastDirection |-> "none", lastTrigger |-> 0,
     windowToggle |-> "none", ev |-> <<>>]

setup(reply) ==
    LET s1 == StopValveMotion(Boot, "setup")
        s2 == [s1 EXCEPT !.isValveOpen = FALSE]
        s3 == [s2 EXCEPT !.previousPumpState = IsPumpOn(reply)]
    IN  With(s3, LAMBDA x : IF x.previousPumpState
                            THEN [x EXCEPT !.lastPumpStateChange = millis(x)]
                            ELSE x)

Init ==
    \E reply \in PumpReplies :
      \E s \in {setup(reply)} :
            /\ clock = s.clock
            /\ openGate = s.openGate
            /\ closeGate = s.closeGate
            /\ isValveOpen = s.isValveOpen
            /\ valveMotion = s.valveMotion
            /\ valveMotionStart = s.valveMotionStart
            /\ manualOverrideStart = s.manualOverrideStart
            /\ manualOverrideActive = s.manualOverrideActive
            /\ pumpStatus = s.pumpStatus
            /\ solarStatus = s.solarStatus
            /\ temp1 = s.temp1
            /\ temp2 = s.temp2
            /\ heaterTestActive = s.heaterTestActive
            /\ heaterTestStart = s.heaterTestStart
            /\ heaterTestResultPool = s.heaterTestResultPool
            /\ heaterTestResultSolar = s.heaterTestResultSolar
            /\ pumpRunTimeToday = s.pumpRunTimeToday
            /\ lastPumpStateChange = s.lastPumpStateChange
            /\ previousPumpState = s.previousPumpState
            /\ buttonPreviouslyPressed = s.buttonPreviouslyPressed
            /\ lastTempRead = s.lastTempRead
            /\ lastTest = s.lastTest
            /\ lastPumpCheck = s.lastPumpCheck
            /\ now = s.now
            /\ pumpCommand = s.pumpCommand
            /\ lastDirection = s.lastDirection
            /\ lastTrigger = s.lastTrigger
            /\ windowToggle = s.windowToggle
            /\ ev = s.ev
            /\ pc = "handleClient"
            /\ ticks = 0

-----------------------------------------------------------------------------
(* HTTP routes, run by server.handleClient() *)

\* the manual toggle, written out in the /valve/toggle route and again in the
\* button section
ToggleValve(s, src) ==
    LET s1 == With(s, LAMBDA x :
                  IF x.isValveOpen
                  THEN [CloseValve(x, src) EXCEPT !.solarStatus = "OFF",
                                                  !.isValveOpen = FALSE]
                  ELSE [OpenValve(x, src) EXCEPT !.solarStatus = "ON",
                                                 !.isValveOpen = TRUE])
    IN  With(s1, LAMBDA x : [x EXCEPT !.lastTrigger = millis(x),
                                      !.windowToggle = x.lastDirection])

RouteRoot(s) == Log(s, "send", "/", "ESP32 Pool Controller Ready")

\* the route restarting the window only when none is active
RouteValveToggle_noRefresh(s) ==
    LET s1 == ToggleValve(s, "/valve/toggle")
        s2 == With(s1, LAMBDA x :
                  IF x.manualOverrideActive
                  THEN x
                  ELSE [x EXCEPT !.manualOverrideStart = millis(x),
                                 !.manualOverrideActive = TRUE])
    IN  Log(s2, "send", "/valve/toggle", "Valve toggled")

\* the route toggling without opening an override window
RouteValveToggle_noWindow(s) ==
    Log(ToggleValve(s, "/valve/toggle"), "send", "/valve/toggle", "Valve toggled")

RouteValveToggle(s) ==
    LET s1 == ToggleValve(s, "/valve/toggle")
        s2 == With(s1, LAMBDA x : [x EXCEPT !.manualOverrideStart = millis(x),
                                            !.manualOverrideActive = TRUE])
    IN  Log(s2, "send", "/valve/toggle", "Valve toggled")

\* the reply's "valve" field; the entry logged carries the other flags
RouteStatus(s) ==
    With(s, LAMBDA x :
        Log(x, "send", "/status", IF x.isValveOpen THEN "open" ELSE "closed"))

-----------------------------------------------------------------------------
(* Sections of loop() *)

\* unsigned long now = millis();
ReadNow(s) == With(s, LAMBDA x : [x EXCEPT !.now = millis(x)])

\* the button section acting on the level of the button, not on its edge
ButtonControl_level(s, buttonNowPressed) ==
    LET s1 == With(s, LAMBDA x :
                  IF ~x.manualOverrideActive /\ buttonNowPressed
                  THEN [ToggleValve(x, "button") EXCEPT
                            !.manualOverrideStart = x.now,
                            !.manualOverrideActive = TRUE]
                  ELSE x)
    IN  [s1 EXCEPT !.buttonPreviouslyPressed = buttonNowPressed]

\* manual toggle button
ButtonControl(s, buttonNowPressed) ==
    LET s1 == With(s, LAMBDA x :
                  IF ~x.manualOverrideActive /\ buttonNowPressed
                     /\ ~x.buttonPreviouslyPressed
                  THEN [ToggleValve(x, "button") EXCEPT
                            !.manualOverrideStart = x.now,
                            !.manualOverrideActive = TRUE]
                  ELSE x)
    IN  [s1 EXCEPT !.buttonPreviouslyPressed = buttonNowPressed]

\* the expiry clearing the window without stopping the actuator
OverrideExpiry_noStop(s) ==
    With(s, LAMBDA x :
        IF x.manualOverrideActive
           /\ ~ULess(USub(x.now, x.manualOverrideStart), OverrideDuration)
        THEN [x EXCEPT !.manualOverrideActive = FALSE, !.windowToggle = "none"]
        ELSE x)

\* override expiry
OverrideDue(s) ==
    /\ s.manualOverrideActive
    /\ ~ULess(USub(s.now, s.manualOverrideStart), OverrideDuration)

OverrideExpiry(s) ==
    With(s, LAMBDA x :
        IF OverrideDue(x)
        THEN [StopValveMotion(x, "override") EXCEPT !.manualOverrideActive = FALSE,
                                                    !.windowToggle = "none"]
        ELSE x)

\* temperature logging
TemperatureLogging(s, sample) ==
    With(s, LAMBDA x :
        IF ULess(TempInterval, USub(x.now, x.lastTempRead))
        THEN LET s1 == [x EXCEPT !.lastTempRead = x.now]
                 s2 == WaitLoop(s1, ProbeWait)
             IN  [s2 EXCEPT !.temp1 = sample[1], !.temp2 = sample[2]]
        ELSE x)

\* the start condition with the hour 16 inside the operating window
TestEligible_closingHour(s, currentHour) ==
    /\ ~s.heaterTestActive
    /\ ULess(testInterval, USub(millis(s), s.lastTest))
    /\ currentHour >= WindowOpenHour
    /\ currentHour <= WindowCloseHour

\* the start condition without the check for an active test
TestEligible_noActiveCheck(s, currentHour) ==
    /\ ULess(testInterval, USub(millis(s), s.lastTest))
    /\ currentHour >= WindowOpenHour
    /\ currentHour < WindowCloseHour

\* heater test start
TestEligible(s, currentHour) ==
    /\ ~s.heaterTestActive
    /\ ULess(testInterval, USub(millis(s), s.lastTest))
    /\ currentHour >= WindowOpenHour
    /\ currentHour < WindowCloseHour

HeaterTestStart(s, currentHour, wifi) ==
    With(s, LAMBDA x :
        IF TestEligible(x, currentHour)
        THEN With(initiateHeaterTest(LogNum(x, "localtime", "loop", currentHour, 0),
                                     wifi),
                  LAMBDA y : [y EXCEPT !.lastTest = millis(y)])
        ELSE x)

\* the finish condition with the duration taken as 300 ms
TestDue_seconds(s) ==
    /\ s.heaterTestActive
    /\ ~ULess(USub(millis(s), s.heaterTestStart), HeaterTestDuration \div 1000)

\* heater test finish
TestDue(s) ==
    /\ s.heaterTestActive
    /\ ~ULess(USub(millis(s), s.heaterTestStart), HeaterTestDuration)

\* the finish put off while an override window is active
HeaterTestFinish_deferred(s, sample, wifi) ==
    With(s, LAMBDA x : IF TestDue(x) /\ ~x.manualOverrideActive
                       THEN finishHeaterTest(x, sample, wifi)
                       ELSE x)

HeaterTestFinish(s, sample, wifi) ==
    With(s, LAMBDA x : IF TestDue(x) THEN finishHeaterTest(x, sample, wifi) ELSE x)

\* the tally marking the start time at every poll that finds the pump on
TrackRuntime_restamps(s, currentPumpState, nowMillis) ==
    LET s1 == IF s.previousPumpState /\ ~currentPumpState
              THEN [s EXCEPT !.pumpRunTimeToday =
                                 UAdd(@, USub(nowMillis, s.lastPumpStateChange))]
              ELSE s
        s2 == IF currentPumpState
              THEN [s1 EXCEPT !.lastPumpStateChange = nowMillis]
              ELSE s1
    IN  [s2 EXCEPT !.previousPumpState = currentPumpState]

\* the tally of the pump runtime, for the state just observed
TrackRuntime(s, currentPumpState, nowMillis) ==
    LET s1 == IF s.previousPumpState /\ ~currentPumpState
              THEN [s EXCEPT !.pumpRunTimeToday =
                                 UAdd(@, USub(nowMillis, s.lastPumpStateChange))]
              ELSE s
        s2 == IF ~s.previousPumpState /\ currentPumpState
              THEN [s1 EXCEPT !.lastPumpStateChange = nowMillis]
              ELSE s1
    IN  [s2 EXCEPT !.previousPumpState = currentPumpState]

\* pump status polling
PumpPolling(s, reply) ==
    With(s, LAMBDA x :
        IF ~ULess(USub(x.now, x.lastPumpCheck), PumpInterval)
        THEN LET s1 == Log(x, "IsPumpOn", "loop", reply)
                 s2 == [s1 EXCEPT !.lastPumpCheck = x.now,
                                  !.pumpStatus = IF IsPumpOn(reply) THEN "ON"
                                                                    ELSE "OFF"]
             IN  With(s2, LAMBDA y : TrackRuntime(y, y.pumpStatus = "ON", millis(y)))
        ELSE x)

\* updateLCD and the idle wait; elapse is the time the pass took, idle wait
\* included, beyond the waits of its other sections
UpdateAndIdle(s, elapse) ==
    LET s1 == With(s, LAMBDA x : Log(x, "updateLCD", "loop", x.solarStatus))
        s2 == WaitLoop(s1, IdleWait)
    IN  Spend(s2, elapse - IdleWait)

-----------------------------------------------------------------------------
(* Actions: one per route and per section of loop() *)

\* Behaviours of Spec are MaxTicks passes.  For the properties that say something
\* eventually happens, the behaviours of LiveSpec take inputs for LiveTicks
\* passes, and the passes go on after that for as long as an override window or
\* a heater test is pending, with the environment quiet: no request, the button
\* released, the pump off and HeaterTestDuration ms per pass.
Pending == manualOverrideActive \/ heaterTestActive
Draining == ticks > MaxTicks

\* server.handleClient() finds no request
NoRequest ==
    /\ pc = "handleClient"
    /\ ticks < MaxTicks
    /\ Does(ReadNow(Cur))
    /\ ticks' = ticks + 1
    /\ pc' = "button"

ServeRoot ==
    /\ pc = "handleClient"
    /\ ticks < MaxTicks
    /\ Does(ReadNow(RouteRoot(Cur)))
    /\ ticks' = ticks + 1
    /\ pc' = "button"

ServeValveToggle ==
    /\ pc = "handleClient"
    /\ ticks < MaxTicks
    /\ Does(ReadNow(RouteValveToggle(Cur)))
    /\ ticks' = ticks + 1
    /\ pc' = "button"

ServeStatus ==
    /\ pc = "handleClient"
    /\ ticks < MaxTicks
    /\ Does(ReadNow(RouteStatus(Cur)))
    /\ ticks' = ticks + 1
    /\ pc' = "button"

Button ==
    /\ pc = "button"
    /\ \E pressed \in (IF Draining THEN {FALSE} ELSE BOOLEAN) :
           Does(ButtonControl(Cur, pressed))
    /\ pc' = "override"
    /\ UNCHANGED ticks

Override ==
    /\ pc = "override"
    /\ Does(OverrideExpiry(Cur))
    /\ pc' = "temperature"
    /\ UNCHANGED ticks

Temperature ==
    /\ pc = "temperature"
    /\ \E sample \in LoggedSamples : Does(TemperatureLogging(Cur, sample))
    /\ pc' = "testStart"
    /\ UNCHANGED ticks

TestStart ==
    /\ pc = "testStart"
    /\ \E hour \in Hours, wifi \in BOOLEAN : Does(HeaterTestStart(Cur, hour, wifi))
    /\ pc' = "testFinish"
    /\ UNCHANGED ticks

TestFinish ==
    /\ pc = "testFinish"
    /\ \E sample \in Samples, wifi \in BOOLEAN :
           Does(HeaterTestFinish(Cur, sample, wifi))
    /\ pc' = "pump"
    /\ UNCHANGED ticks

PumpWith(replies) ==
    /\ pc = "pump"
    /\ \E reply \in replies : Does(PumpPolling(Cur, reply))
    /\ pc' = "idle"
    /\ UNCHANGED ticks

\* No section but the polling itself, the display and the status route reads
\* what a poll leaves behind, so the replies vary in the first passes only.
Pump == PumpWith(IF Draining \/ ticks > PumpTicks THEN {"false"} ELSE PumpReplies)

\* the polling section in the behaviours of TallySpec
TallyPump == PumpWith(PumpReplies)

IdleFor(durations) ==
    /\ pc = "idle"
    /\ \E elapse \in durations : Does(UpdateAndIdle(Cur, elapse))
    /\ pc' = "handleClient"
    /\ UNCHANGED ticks

Idle == IdleFor(IF Draining THEN {HeaterTestDuration} ELSE Elapse)

\* the end of a pass in the behaviours of TallySpec
LongIdle == IdleFor(LongElapse)

Next ==
    \/ NoRequest
    \/ ServeRoot
    \/ ServeValveToggle
    \/ ServeStatus
    \/ Button
    \/ Override
    \/ Temperature
    \/ TestStart
    \/ TestFinish
    \/ Pump
    \/ Idle

Spec == Init /\ [][Next]_vars

\* a pass after the last pass that takes inputs
DrainRequest ==
    /\ pc = "handleClient"
    /\ ticks >= LiveTicks
    /\ Pending
    /\ Does(ReadNow(Cur))
    /\ ticks' = MaxTicks + 1
    /\ pc' = "button"

\* a pass that takes inputs, while LiveSpec allows them
LiveRequest ==
    /\ ticks < LiveTicks
    /\ (NoRequest \/ ServeRoot \/ ServeValveToggle \/ ServeStatus)

LiveNext ==
    \/ LiveRequest
    \/ DrainRequest
    \/ Button
    \/ Override
    \/ Temperature
    \/ TestStart
    \/ TestFinish
    \/ Pump
    \/ Idle

\* loop() is called again whenever it returns and every section of it returns:
\* the next section always runs
LiveSpec == Init /\ [][LiveNext]_vars /\ WF_vars(LiveNext)

\* the passes of weeks of uptime, for what the program does with timestamps and
\* sums near the end of the range of unsigned long: no request arrives, and a
\* pass lasts one polling period or nearly 25 days
TallyNext ==
    \/ NoRequest
    \/ Button
    \/ Override
    \/ Temperature
    \/ TestStart
    \/ TestFinish
    \/ TallyPump
    \/ LongIdle

TallySpec == Init /\ [][TallyNext]_vars

-----------------------------------------------------------------------------
(* Vocabulary of the properties *)

\* the entries of ev made by op
Calls(op) == {i \in DOMAIN ev : ev[i].op = op}

\* the valve commands of the last section, in the order issued
ValveCommands ==
    LET IsCommand(e) == e.op \in {"OpenValve", "CloseValve", "StopValveMotion"}
        cmds == SelectSeq(ev, IsCommand)
    IN  [i \in DOMAIN cmds |-> cmds[i].op]

BothHigh(open, close) == open = "HIGH" /\ close = "HIGH"

\* replies of the pump switch for which the state query fails
FailedReplies == {"offline", "error", "nofield"}

\* the heater test was evaluated by the section that just ran
Evaluated == pc = "pump" /\ Calls("finishHeaterTest") # {}

-----------------------------------------------------------------------------
(* C1: the open-drive and close-drive outputs are never both HIGH, neither
   between sections nor after any single pin write inside a valve command,
   and the motion recorded matches the one output that is driven. *)
DriveMutualExclusion ==
    /\ ~BothHigh(openGate, closeGate)
    /\ \A i \in DOMAIN ev : ~BothHigh(ev[i].openGate, ev[i].closeGate)
    /\ (valveMotion = "OPENING_MOTION") <=> (openGate = "HIGH")
    /\ (valveMotion = "CLOSING_MOTION") <=> (closeGate = "HIGH")
    /\ valveMotion \in {"IDLE", "OPENING_MOTION", "CLOSING_MOTION"}

\* a direction is reversed while the actuator is still driven the other way
DriveReversedMidMotion ==
    \/ \E i \in Calls("CloseValve") : ev[i].openGate = "HIGH"
    \/ \E i \in Calls("OpenValve") : ev[i].closeGate = "HIGH"

(* C2: while the manual override window is active, neither initiateHeaterTest
   nor finishHeaterTest commands the valve. *)
NoAutomatedCommandDuringOverride ==
    \A i \in DOMAIN ev :
        (/\ ev[i].op \in {"OpenValve", "CloseValve"}
         /\ ev[i].src \in {"initiateHeaterTest", "finishHeaterTest"})
        => ~ev[i].manualOverrideActive

(* C3: manualOverrideActive goes from true to false only in the override
   section of a pass, and only when at least OverrideDuration ms have passed
   since the most recent manual toggle. *)
OverrideNotClearedEarly ==
    [][(manualOverrideActive /\ ~manualOverrideActive')
         => /\ pc = "override"
            /\ now' - lastTrigger' >= OverrideDuration]_vars

\* a window that a second toggle refreshed has just expired: no heater test ever
\* ran, the valve was opened and closed again, and two separate windows cannot
\* both have elapsed yet
RefreshedWindowExpired ==
    /\ pc = "temperature"
    /\ ~manualOverrideActive
    /\ Calls("StopValveMotion") # {}
    /\ lastDirection = "close"
    /\ lastTest = 0
    /\ now < WiFiSettle + 2 * OverrideDuration

(* C4: every active override window expires: a pass that reaches the override
   section with the window active and now - manualOverrideStart >= 20000 calls
   StopValveMotion there, leaving both outputs LOW, the actuator idle and the
   window cleared; and, the loop running on, every active window is eventually
   cleared, heater tests blocking the loop or not. *)
OverrideExpires ==
    /\ [][(pc = "override" /\ OverrideDue(Cur))
           => /\ ~manualOverrideActive'
              /\ Calls("StopValveMotion")' # {}
              /\ openGate' = "LOW"
              /\ closeGate' = "LOW"
              /\ valveMotion' = "IDLE"]_vars
    /\ (manualOverrideActive ~> ~manualOverrideActive)

\* the window has just expired in a pass that follows a heater test start: the
\* start blocked the loop in the pass of the toggle, while the window was open
ExpiredAfterBlockingTestStart ==
    /\ pc = "temperature"
    /\ ~manualOverrideActive
    /\ \E i \in Calls("StopValveMotion") : ev[i].src = "override"
    /\ heaterTestActive
    /\ lastTrigger <= heaterTestStart
    /\ heaterTestStart - lastTrigger < OverrideDuration

(* C5: initiateHeaterTest is invoked only while no heater test is active. *)
TestStartsOnlyWhenInactive ==
    \A i \in Calls("initiateHeaterTest") : ~ev[i].heaterTestActive

\* the start section has just run with a test active and the test interval
\* elapsed again, and started nothing
ActiveTestBlockedStart ==
    /\ pc = "testFinish"
    /\ heaterTestActive
    /\ clock - lastTest > testInterval
    /\ ev = <<>>

(* C6: a failed pump state query reports OFF and leaves pumpRunTimeToday as it
   was before the poll. *)
FailedPollLeavesTally ==
    \A i \in Calls("IsPumpOn") :
        ev[i].arg \in FailedReplies
        => /\ pumpStatus = "OFF"
           /\ pumpRunTimeToday = ev[i].pumpRunTimeToday

(* C7: an evaluation with resultSolar <= resultPool + 0.5 commands CloseValve,
   then StopValveMotion, and ends with the valve closed, the actuator idle with
   both outputs LOW, heating OFF, the pump commanded off and no test active. *)
IneffectiveTestShutsDown ==
    (Evaluated /\ heaterTestResultSolar <= heaterTestResultPool + EffectiveMargin)
    => /\ ValveCommands = <<"CloseValve", "StopValveMotion">>
       /\ isValveOpen = FALSE
       /\ valveMotion = "IDLE"
       /\ openGate = "LOW"
       /\ closeGate = "LOW"
       /\ solarStatus = "OFF"
       /\ pumpCommand = "off"
       /\ heaterTestActive = FALSE

\* an evaluation at exactly the margin has just shut the system down
MarginTestShutDown ==
    /\ Evaluated
    /\ heaterTestResultSolar = heaterTestResultPool + EffectiveMargin
    /\ lastDirection = "close"

(* C8: an evaluation with resultSolar > resultPool + 0.5 issues no CloseValve
   and ends with the valve open (flag set and last driven open), the pump
   commanded on, heating ON and no test active. *)
EffectiveTestKeepsOpen ==
    (Evaluated /\ heaterTestResultSolar > heaterTestResultPool + EffectiveMargin)
    => /\ Calls("CloseValve") = {}
       /\ isValveOpen = TRUE
       /\ lastDirection = "open"
       /\ pumpCommand = "on"
       /\ solarStatus = "ON"
       /\ heaterTestActive = FALSE

(* C9: wherever a status query is served or the display is refreshed, the
   valve is reported open exactly when the heating status is "ON"; the same
   holds at the start of every pass. *)
StatusFieldsConsistent ==
    /\ \A i \in Calls("send") \cup Calls("updateLCD") :
           ev[i].isValveOpen <=> (ev[i].solarStatus = "ON")
    /\ \A i \in Calls("send") :
           ev[i].src = "/status" => (ev[i].arg = "open" <=> ev[i].solarStatus = "ON")
    /\ pc = "handleClient" => (isValveOpen <=> (solarStatus = "ON"))

\* a status query is served in the pass after an effective evaluation
StatusAfterEffectiveTest ==
    /\ \E i \in Calls("send") : ev[i].src = "/status" /\ ev[i].arg = "open"
    /\ heaterTestStart > 0
    /\ ~heaterTestActive
    /\ heaterTestResultSolar > heaterTestResultPool + EffectiveMargin

(* C10: StopValveMotion on an idle actuator changes no output and no variable
   of the program, and a second StopValveMotion changes nothing the first left:
   for the operator applied to every reachable state, and for every call the
   program makes on an idle actuator. *)
StopIsIdempotent ==
    LET once == StopValveMotion(Cur, "")
        twice == StopValveMotion(once, "")
        Quiet(s) == [s EXCEPT !.ev = <<>>]
    IN  /\ Quiet(twice) = Quiet(once)
        /\ valveMotion = "IDLE" => Quiet(once) = Cur
        /\ \A i \in Calls("StopValveMotion") :
               ev[i].valveMotion = "IDLE"
               => /\ ev[i + 1].op = "digitalWrite"
                  /\ ev[i + 2].op = "digitalWrite"
                  /\ \A j \in {i + 1, i + 2} :
                         /\ ev[j].openGate = ev[i].openGate
                         /\ ev[j].closeGate = ev[i].closeGate
                         /\ ev[j].openGate = "LOW"
                         /\ ev[j].closeGate = "LOW"

\* the override expiry stops an actuator that a heater test had already stopped
StopCalledWhileIdle ==
    /\ pc = "temperature"
    /\ \E i \in Calls("StopValveMotion") :
           ev[i].src = "override" /\ ev[i].valveMotion = "IDLE"
    /\ valveMotion = "IDLE"

-----------------------------------------------------------------------------
\* the sources of a manual toggle: the button section and the toggle route
ManualSources == {"button", "/valve/toggle"}

(* C11: a manual toggle made while isValveOpen is false leaves isValveOpen true
   and the actuator OPENING_MOTION at once; and a StopValveMotion called in
   the override window of that toggle, once the settle duration has passed,
   leaves the actuator IDLE with isValveOpen still true. *)
ManualOpenRoundTrip ==
    /\ \A i \in Calls("OpenValve") :
           ev[i].src \in ManualSources
           => /\ ~ev[i].isValveOpen
              /\ isValveOpen = TRUE
              /\ valveMotion = "OPENING_MOTION"
    /\ \A i \in Calls("StopValveMotion") :
           (/\ ev[i].windowToggle = "open"
            /\ ev[i].manualOverrideActive
            /\ ev[i].clock - lastTrigger >= ValveSettle)
           => /\ valveMotion = "IDLE"
              /\ isValveOpen = TRUE

(* C12: initiateHeaterTest is called only by the start section of a pass, only
   while no test is active, only when at least testInterval ms have passed
   since the start recorded for the previous test (since boot, for the first),
   and only at a local hour h with 9 <= h < 16. *)
TestStartsOnlyWhenEligible ==
    \A i \in Calls("initiateHeaterTest") :
        /\ pc = "testFinish"
        /\ ~ev[i].heaterTestActive
        /\ ev[i].lastTest = ev[i].heaterTestStart
        /\ ev[i].clock - ev[i].lastTest >= testInterval
        /\ i > 1
        /\ ev[i - 1].op = "localtime"
        /\ ev[i - 1].n >= WindowOpenHour
        /\ ev[i - 1].n < WindowCloseHour

\* a second test has just started, an hour after the first one did
SecondTestStarted ==
    /\ pc = "testFinish"
    /\ \E i \in Calls("initiateHeaterTest") : ev[i].lastTest > 0
    /\ heaterTestActive

\* the waits of the last section: the calls of delay() and the wait loops
Waits == Calls("delay")

(* C13: no wait of the program lets more than a few milliseconds (fewer than
   10) pass without a call of the housekeeping service ArduinoOTA.handle(). *)
WaitsInterleaveHousekeeping ==
    \A i \in Waits : ev[i].gap < 10

(* C14: pumpRunTimeToday never decreases, however long the pump has run and
   however often millis() has wrapped around. *)
TallyNeverDecreases ==
    [][~ULess(pumpRunTimeToday', pumpRunTimeToday)]_vars

(* C15: a heater test, once started, runs to completion: the pass that finds
   the test due calls finishHeaterTest and clears heaterTestActive, whatever
   the override window, the button or the pump do; only finishHeaterTest
   clears heaterTestActive, and heaterTestStart stays as recorded while the test
   is active; and, the loop running on, every active test is eventually
   evaluated. *)
TestRunsToCompletion ==
    /\ [][(pc = "testFinish" /\ TestDue(Cur))
           => /\ Calls("finishHeaterTest")' # {}
              /\ ~heaterTestActive']_vars
    /\ [][(heaterTestActive /\ ~heaterTestActive')
           => Calls("finishHeaterTest")' # {}]_vars
    /\ [][(heaterTestActive /\ heaterTestActive')
           => heaterTestStart' = heaterTestStart]_vars
    /\ (heaterTestActive ~> ~heaterTestActive)

\* a test has just been evaluated in a pass in which an override window was open
EvaluatedDuringOverride ==
    /\ Evaluated
    /\ \E i \in Calls("finishHeaterTest") : ev[i].manualOverrideActive
    /\ ~heaterTestActive

(* C16: finishHeaterTest runs only in the finish section of a pass that finds
   heaterTestActive set and at least HeaterTestDuration ms gone since
   heaterTestStart, nothing of the evaluation happens in any other section, and
   heaterTestStart is the time at which initiateHeaterTest stopped the opening
   motion, the settle wait after OpenValve. *)
EvaluationOnlyWhenDue ==
    /\ \A i \in Calls("finishHeaterTest") :
           /\ pc = "pump"
           /\ ev[i].heaterTestActive
           /\ ev[i].clock - ev[i].heaterTestStart >= HeaterTestDuration
    /\ \A i \in DOMAIN ev :
           ev[i].src = "finishHeaterTest" => Calls("finishHeaterTest") # {}
    /\ \A i \in Calls("initiateHeaterTest") :
           \E j \in Calls("OpenValve"), k \in Calls("StopValveMotion") :
               /\ i < j
               /\ j < k
               /\ ev[k].valveMotion = "OPENING_MOTION"
               /\ ev[k].clock = ev[j].clock + ValveSettle
               /\ heaterTestStart = ev[k].clock
               /\ valveMotion = "IDLE"

\* a test is evaluated in the first pass that finds it due, a button toggle
\* having refreshed nothing
EvaluatedWhenDue ==
    /\ Evaluated
    /\ \E i \in Calls("finishHeaterTest") :
           ev[i].clock - ev[i].heaterTestStart >= HeaterTestDuration
    /\ lastTrigger = 0

\* the tally rule of a poll made at time t: ev[i] is the poll's IsPumpOn entry,
\* taken before the poll changed anything
TallyRuleAt(i, t) ==
    LET was == ev[i].previousPumpState
        observed == IsPumpOn(ev[i].arg)
    IN  /\ (was /\ ~observed)
           => /\ pumpRunTimeToday
                    = ev[i].pumpRunTimeToday + (t - ev[i].lastPumpStateChange)
              /\ lastPumpStateChange = ev[i].lastPumpStateChange
        /\ (~was /\ observed)
           => /\ lastPumpStateChange = t
              /\ pumpRunTimeToday = ev[i].pumpRunTimeToday
        /\ (was = observed)
           => /\ lastPumpStateChange = ev[i].lastPumpStateChange
              /\ pumpRunTimeToday = ev[i].pumpRunTimeToday
        /\ previousPumpState = observed
        /\ pumpStatus = (IF observed THEN "ON" ELSE "OFF")

\* a poll runs only in a pass whose now is at least PumpInterval past
\* lastPumpCheck, the now of the pass of the poll before, and it commands nothing
PollSpacedAndReadOnly(i) ==
    /\ pc = "idle"
    /\ now - ev[i].lastPumpCheck >= PumpInterval
    /\ lastPumpCheck = now
    /\ Calls("CallPump") = {}
    /\ ValveCommands = <<>>

(* C17, as stated: every poll applies the tally rule with now, the time loop()
   read at the start of the pass, is at least PumpInterval after the poll
   before it and issues no pump command. *)
TallyRuleWithPassTime ==
    \A i \in Calls("IsPumpOn") : TallyRuleAt(i, now) /\ PollSpacedAndReadOnly(i)

(* C17, amended: every poll applies the tally rule with nowMillis, the value
   of millis() read at the poll, which is later than now by the waits of the
   sections before it; the spacing of the polls is that of the pass times now;
   no poll issues a pump command. *)
TallyRuleWithPollTime ==
    \A i \in Calls("IsPumpOn") :
        TallyRuleAt(i, ev[i].clock) /\ PollSpacedAndReadOnly(i)

\* a poll has just found the pump off after it was on, in a pass that waited
\* for the probes before the poll
PumpFoundOffAfterWait ==
    /\ pc = "idle"
    /\ \E i \in Calls("IsPumpOn") :
           /\ ev[i].previousPumpState
           /\ ev[i].arg = "false"
           /\ ev[i].clock > now
    /\ pumpRunTimeToday > 0

\* the directional commands the button section has just issued
ButtonToggles ==
    {i \in DOMAIN ev : ev[i].op \in {"OpenValve", "CloseValve"} /\ ev[i].src = "button"}

(* C18: the button section toggles at most once, and only when the button is
   pressed now, was not pressed in the pass before and no override window is
   active; an accepted press flips isValveOpen and starts the window at now;
   without one the section leaves the valve and the window alone.  The
   level remembered is that of the pass before, whatever the window, so a
   button held down, or pressed during a window and held beyond its expiry,
   toggles nothing further. *)
ButtonTogglesOnEdgeOnly ==
    /\ [][pc = "button"
           => /\ Cardinality(ButtonToggles') <= 1
              /\ ButtonToggles' # {}
                 => /\ ~manualOverrideActive
                    /\ ~buttonPreviouslyPressed
                    /\ buttonPreviouslyPressed'
                    /\ isValveOpen' = ~isValveOpen
                    /\ manualOverrideActive'
                    /\ manualOverrideStart' = now
              /\ ButtonToggles' = {}
                 => UNCHANGED <<isValveOpen, valveMotion, openGate, closeGate,
                                manualOverrideActive, manualOverrideStart>>
              /\ (buttonPreviouslyPressed \/ manualOverrideActive)
                 => ButtonToggles' = {}]_vars
    /\ [][pc # "button" => UNCHANGED buttonPreviouslyPressed]_vars

\* the button is down in a pass that finds no window active, the window of an
\* earlier toggle having expired, and the section has toggled nothing
HeldButtonAfterExpiry ==
    /\ pc = "override"
    /\ buttonPreviouslyPressed
    /\ ~manualOverrideActive
    /\ lastTrigger > 0
    /\ ev = <<>>

(* C19: the actuator is never left driven: every OpenValve and CloseValve of a
   heater test is followed by StopValveMotion before the test function returns,
   at the start of every pass an actuator in motion has its override window
   active, and, the loop running on, every motion is eventually stopped. *)
ActuatorNeverLeftDriven ==
    /\ [](\A i \in DOMAIN ev :
              (/\ ev[i].op \in {"OpenValve", "CloseValve"}
               /\ ev[i].src \in {"initiateHeaterTest", "finishHeaterTest"})
              => \E j \in Calls("StopValveMotion") : j > i /\ ev[j].src = ev[i].src)
    /\ []((pc = "handleClient" /\ valveMotion # "IDLE") => manualOverrideActive)
    /\ (valveMotion # "IDLE" ~> valveMotion = "IDLE")

\* a pass starts with the actuator closing the valve on a manual toggle, a heater
\* test being active
ClosingAtPassStart ==
    /\ pc = "handleClient"
    /\ valveMotion = "CLOSING_MOTION"
    /\ manualOverrideActive
    /\ heaterTestActive

(* C20: at the start of every pass isValveOpen is true exactly when the last
   directional command issued was OpenValve, and false when it was CloseValve
   or none was issued yet. *)
FlagMatchesLastDirection ==
    pc = "handleClient" => (isValveOpen <=> lastDirection = "open")

====
